---- MODULE Spec2Model ----
(***************************************************************************)
(* The call-state reconciliation pipeline of src/app.py: the webhook       *)
(* handlers (call started, transcription fragment / stopped, recording     *)
(* completed), the extraction merge, the status / notes API, the audio     *)
(* download, the live-call listing and the retention sweep, over the three *)
(* tables calls, transcripts, live_calls.                                  *)
(*                                                                         *)
(* A handler action takes one request from its first statement to its     *)
(* response; the scoped session is discarded at the end of a request, so   *)
(* the state between two requests is the committed content of the tables.  *)
(* BeginFragment and CommitFragment split the transcription handler in two *)
(* for requests that are handled at the same time; BeginIncoming,          *)
(* InsertCall and InsertLive do the same for the call-started handler.     *)
(***************************************************************************)
EXTENDS Integers, Sequences, FiniteSets, TLC

(***************************************************************************)
(* Bounds of the model.                                                    *)
(***************************************************************************)
MaxTranscripts == 2    \* rows ever inserted into transcripts
MaxExtraDays == 1      \* clock values explored on each side of the cutoff
MaxHandlers == 2       \* requests the server handles at the same time

(***************************************************************************)
(* Program constants.                                                      *)
(***************************************************************************)
RetentionDays == 90    \* timedelta(days=90)
ContextLimit == 5      \* .limit(5)

(***************************************************************************)
(* Python values.  A column or a JSON value is None, a string, a boolean   *)
(* or an integer; the tag keeps "" = False, 0 = "" and None = "" false, as *)
(* they are in Python.                                                     *)
(***************************************************************************)
None == [t |-> "None"]
Str(s) == [t |-> "str", s |-> s]
Bool(b) == [t |-> "bool", b |-> b]
Num(n) == [t |-> "int", n |-> n]

\* bool(v): None, "", False and 0 are falsy
Truthy(v) == v \notin {None, Str(""), Bool(FALSE), Num(0)}

(***************************************************************************)
(* The clock, datetime.utcnow(), in days.                                  *)
(***************************************************************************)
Times == (0 .. MaxExtraDays) \cup (RetentionDays .. RetentionDays + MaxExtraDays)

CallSids == {"CA1", "CA2"}
\* the identifier the carrier announces with a call-started event where a
\* specification follows one call; events for the other are orphans
Dialled == {"CA1"}
FromNumbers == {Str("+441"), Str("+442")}

VARIABLES
    calls,              \* table calls: a set of rows
    transcripts,        \* table transcripts: rows in insertion order
    live_calls,         \* table live_calls: a set of rows
    next_call_id,       \* sequence behind calls.id
    next_transcript_id, \* sequence behind transcripts.id
    now,                \* datetime.utcnow()
    openai_key,         \* OPENAI_API_KEY is set
    twilio_sid,         \* TWILIO_ACCOUNT_SID differs from 'your_twilio_sid'
    inflight,           \* requests between their read and their commits
    ev                  \* the request handled last, with its response

vars == <<calls, transcripts, live_calls, next_call_id, next_transcript_id,
          now, openai_key, twilio_sid, inflight, ev>>

tables == <<calls, transcripts, live_calls>>

(***************************************************************************)
(* Rows.                                                                   *)
(***************************************************************************)
\* Call(call_sid=..., from_number=..., status='active') with the column defaults
NewCall(id, sid, from, t) ==
    [id |-> id, call_sid |-> sid, from_number |-> from, start_time |-> t,
     status |-> Str("active"),
     customer_name |-> None, postcode |-> None,
     callback_requested |-> Bool(FALSE), trade_customer |-> Bool(FALSE),
     booking_confirmed |-> Bool(FALSE), roadside_reach |-> Bool(TRUE),
     recording_url |-> None, recording_sid |-> None,
     recording_duration |-> Num(0), local_audio_path |-> None,
     audio_status |-> Str("pending"), team_notes |-> None]

\* LiveCall(call_sid=..., phone=..., status='connecting') with the column defaults
NewLiveCall(sid, from, t) ==
    [call_sid |-> sid, customer_name |-> Str("Unknown"), phone |-> from,
     postcode |-> Str("Unknown"), status |-> Str("connecting"),
     start_time |-> t, last_update |-> t]

\* Transcript(call_sid=..., speaker=..., text=...) with the column defaults
NewTranscript(id, sid, speaker, text, t) ==
    [id |-> id, call_sid |-> sid, speaker |-> speaker, text |-> text,
     timestamp |-> t]

\* Call.query.filter_by(call_sid=call_sid): the matching rows
CallsBySid(sid) == {c \in calls : c.call_sid = sid}
\* LiveCall.query.filter_by(call_sid=call_sid): the matching rows
LiveBySid(sid) == {l \in live_calls : l.call_sid = sid}
\* Call.query.get(call_id)
CallsById(id) == {c \in calls : c.id = id}

\* the empty tables of db.create_all(), under a given environment
InitWith(keys, sids) ==
    /\ calls = {}
    /\ transcripts = <<>>
    /\ live_calls = {}
    /\ next_call_id = 1
    /\ next_transcript_id = 1
    /\ now = 0
    /\ openai_key \in keys
    /\ twilio_sid \in sids
    /\ inflight = {}
    /\ ev = [op |-> "start"]

Init == InitWith(BOOLEAN, BOOLEAN)

(***************************************************************************)
(* Storage faults.  A request's database work can raise at any of its      *)
(* statements; what matters is which commits had completed before.  The    *)
(* handlers catch the exception themselves, so with_db_retry never sees    *)
(* one and never runs a handler twice.                                     *)
(***************************************************************************)
\* no except clause around the database work
WebhookResponseUnguarded(raised) == IF raised THEN 500 ELSE 200

\* a webhook handler whose try block raised: the bare except rolls back and
\* the handler goes on to its return statement
WebhookResponse(raised) == 200

(***************************************************************************)
(* POST /voice/incoming                                                    *)
(***************************************************************************)
\* fault: "none", "call" (raises up to the first commit), "live" (raises
\* after it, up to the second commit)
\* the lookup of line 337 left out
CallAlwaysMissing(found) == TRUE

\* line 338: if not call
CallMissing(found) == found = {}

HandleIncomingCall(sid, from, fault) ==
    LET found == CallsBySid(sid)
        insertCall == CallMissing(found) /\ fault /= "call"
        liveFound == LiveBySid(sid)
        insertLive == liveFound = {} /\ fault = "none"
    IN  /\ calls' = IF insertCall
                    THEN calls \cup {NewCall(next_call_id, sid, from, now)}
                    ELSE calls
        /\ next_call_id' = IF insertCall THEN next_call_id + 1 ELSE next_call_id
        /\ live_calls' = IF insertLive
                         THEN live_calls \cup {NewLiveCall(sid, from, now)}
                         ELSE live_calls
        /\ ev' = [op |-> "incoming", call_sid |-> sid, from |-> from, fault |-> fault,
                  resp |-> WebhookResponse(fault /= "none")]
        /\ UNCHANGED <<transcripts, next_transcript_id, now, openai_key, twilio_sid, inflight>>

(***************************************************************************)
(* POST /voice/recording                                                   *)
(***************************************************************************)
\* int(recording_duration) of the form value: a number, or ValueError
IntOf(s) ==
    CASE s = "0" -> [ok |-> TRUE, n |-> 0]
      [] s = "30" -> [ok |-> TRUE, n |-> 30]
      [] OTHER -> [ok |-> FALSE]

\* the f-string of line 384, "AC1" being the configured TWILIO_ACCOUNT_SID
RecordingUrl(rsid) ==
    Str("https://api.twilio.com/2010-04-01/Accounts/AC1/Recordings/"
        \o rsid.s \o ".mp3")

\* the filter on call_sid left out
RecordingTargetAny(sid) == calls

\* line 381: the row the event is about
RecordingTarget(sid) == CallsBySid(sid)

\* the two assignments before int() are kept, the two after it are lost
SetRecordingUntilDuration(call, rsid, n) ==
    [call EXCEPT !.recording_url = RecordingUrl(rsid),
                 !.recording_sid = rsid]

\* the four assignments to the fetched row
SetRecording(call, rsid, n) ==
    [call EXCEPT !.recording_url = RecordingUrl(rsid),
                 !.recording_sid = rsid,
                 !.recording_duration = Num(n),
                 !.audio_status = Str("available")]

\* rsid: RecordingSid of the form (None when absent); duration: the form's
\* RecordingDuration ("0" when absent); fault: the query or the commit raises
HandleRecording(sid, rsid, duration, fault) ==
    LET found == RecordingTarget(sid)
        parsed == IntOf(duration)
        applies == found /= {} /\ Truthy(rsid) /\ twilio_sid
        raised == fault \/ (applies /\ ~parsed.ok)
    IN  /\ IF applies /\ ~raised
           THEN \E call \in found :
                   calls' = (calls \ {call}) \cup {SetRecording(call, rsid, parsed.n)}
           ELSE calls' = calls
        /\ ev' = [op |-> "recording", call_sid |-> sid, rsid |-> rsid,
                  duration |-> duration,
                  raised |-> raised, resp |-> WebhookResponse(raised)]
        /\ UNCHANGED <<transcripts, live_calls, next_call_id, next_transcript_id,
                       now, openai_key, twilio_sid, inflight>>

(***************************************************************************)
(* Extraction merge                                                        *)
(***************************************************************************)
\* the keys of the returned JSON object this model draws from: columns of
\* Call, and a key that is no attribute of Call
NoAttribute == "bogus"

\* hasattr(call, field)
Hasattr(call, field) == field \in DOMAIN call

\* the test of current_value left out
MergeFieldsOverwrite(call, data) ==
    [f \in DOMAIN call |->
        IF /\ f \in DOMAIN data
           /\ Hasattr(call, f)
           /\ data[f] /= None /\ data[f] /= Str("")
        THEN data[f]
        ELSE call[f]]

\* a boolean column takes every value that is not None
MergeFieldsFlagsAssigned(call, data) ==
    [f \in DOMAIN call |->
        IF /\ f \in DOMAIN data
           /\ Hasattr(call, f)
           /\ data[f] /= None /\ data[f] /= Str("")
           /\ (call[f] = None \/ call[f] = Str("") \/ call[f].t = "bool")
        THEN data[f]
        ELSE call[f]]

\* lines 277-282: the loop over extracted_data.items()
MergeFields(call, data) ==
    [f \in DOMAIN call |->
        IF /\ f \in DOMAIN data
           /\ Hasattr(call, f)
           /\ data[f] /= None /\ data[f] /= Str("")
           /\ (call[f] = None \/ call[f] = Str(""))
        THEN data[f]
        ELSE call[f]]

\* the timestamp of the row of transcripts at index i; index 0 stands for
\* the row the session has flushed and not committed, stamped with the clock
TimestampAt(i) == IF i = 0 THEN now ELSE transcripts[i].timestamp

\* ORDER BY timestamp DESC LIMIT k over the rows at the indices idx: the
\* newest row first, rows of equal timestamp in any order
RECURSIVE NewestFirst(_, _)
NewestFirst(idx, k) ==
    IF k = 0 \/ idx = {} THEN {<<>>}
    ELSE UNION {{<<i>> \o q : q \in NewestFirst(idx \ {i}, k - 1)} :
                  i \in {x \in idx : \A o \in idx : TimestampAt(o) <= TimestampAt(x)}}

\* lines 228-230: the results the query may give.  The session flushes the
\* pending row of the current fragment before it queries, so that row is
\* among the rows of the call.
RecentTranscripts(sid, row) ==
    LET idx == {i \in DOMAIN transcripts : transcripts[i].call_sid = sid} \cup {0}
    IN  {[n \in DOMAIN q |-> IF q[n] = 0 THEN row ELSE transcripts[q[n]]] :
            q \in NewestFirst(idx, ContextLimit)}

\* line 233
Role(speaker) == IF speaker = "CUSTOMER" THEN "user" ELSE "assistant"

\* lines 232-236: the rows oldest first, then the current utterance
ContextMessages(recent, text) ==
    Append([i \in 1 .. Len(recent) |->
               [role |-> Role(recent[Len(recent) + 1 - i].speaker),
                content |-> recent[Len(recent) + 1 - i].text]],
           [role |-> "user", content |-> text])

\* what the extraction service does with one request: ext.kind, and in
\* ext.data the JSON object of the body where a body arrives
FailureKinds == {"timeout", "unreachable", "non200", "malformed"}

\* extract_information_with_openai: the row as the function leaves it.
\* A timeout or a refused connection raises in requests.post, a body that is
\* no JSON object of the expected shape raises before the loop, a status
\* other than 200 returns False: in each case no setattr has run.
ExtractInformation(call, ext) ==
    IF ~openai_key THEN call
    ELSE IF ext.kind = "ok" THEN MergeFields(call, ext.data)
    ELSE call

(***************************************************************************)
(* POST /voice/transcription                                               *)
(***************************************************************************)
\* the 'transcript' values this model draws from, as sequences of characters
RawTexts == {<<>>, <<" ">>, <<"a">>, <<" ", "a", " ">>}

RECURSIVE LStrip(_)
LStrip(s) == IF s /= <<>> /\ Head(s) = " " THEN LStrip(Tail(s)) ELSE s
RECURSIVE RStrip(_)
RStrip(s) == IF s /= <<>> /\ s[Len(s)] = " " THEN RStrip(SubSeq(s, 1, Len(s) - 1)) ELSE s
\* str.strip()
Strip(s) == RStrip(LStrip(s))

\* lines 401-406: TranscriptionData parsed, '' when it is no JSON object
TextOf(data) == IF data.ok THEN Strip(data.transcript) ELSE <<>>

\* str.lower() of the values of Final this model draws from
Lower(s) == IF s = "True" THEN "true" ELSE s
\* line 409; the form value defaults to 'false'
IsFinal(v) == Lower(IF v = "absent" THEN "false" ELSE v) = "true"

\* line 412
SpeakerOf(track) == IF track = "inbound_track" THEN "CUSTOMER" ELSE "AI_AGENT"

\* "or" for "and"
RecordedEither(text, final) == text /= <<>> \/ final

\* line 411
Recorded(text, final) == text /= <<>> /\ final

\* lines 423-430: the live row after a recorded fragment
TouchLive(l, call, t) ==
    [l EXCEPT !.status = Str("in_progress"),
              !.last_update = t,
              !.customer_name = IF Truthy(call.customer_name)
                                THEN call.customer_name ELSE @,
              !.postcode = IF Truthy(call.postcode) THEN call.postcode ELSE @]

NoData == [f \in {} |-> None]
\* the extraction service was not called
NotInvoked == [kind |-> "not_invoked", data |-> NoData]

\* the String(n) columns of Call and of LiveCall
CallLimits ==
    [from_number |-> 50, status |-> 20, customer_name |-> 100, postcode |-> 20,
     recording_url |-> 500, recording_sid |-> 100, local_audio_path |-> 300,
     audio_status |-> 50]
LiveLimits == [customer_name |-> 100, phone |-> 20, postcode |-> 10, status |-> 50]

\* the database takes the row: a string longer than its varchar(n) column
\* makes the flush raise (PostgreSQL, the database of line 12).  The other
\* handlers write only values that fit their columns.
Accepts(row, limits) ==
    \A f \in DOMAIN limits : row[f].t = "str" => Len(row[f].s) <= limits[f]

\* a fragment of the speaker of the newest row is joined to that row
AddTranscriptJoined(log, row) ==
    IF log /= <<>> /\ log[Len(log)].call_sid = row.call_sid
                   /\ log[Len(log)].speaker = row.speaker
    THEN [log EXCEPT ![Len(log)].text = @ \o row.text]
    ELSE Append(log, row)

\* lines 417-418: the fragment is a new row of transcripts
AddTranscript(log, row) == Append(log, row)

\* the session's writes survive although a statement raised
RollbackSkipped(fault) == FALSE

\* lines 433-434: a statement of the try block raised, the except clause
\* rolls the session back and nothing of the event is committed
RolledBack(fault) == fault

\* event 'transcription-content'; fault: a statement of the try block raises
\* for a reason of the storage layer's own
HandleFragment(sid, data, track, finalv, ext, fault) ==
    LET text == TextOf(data)
        final == IsFinal(finalv)
        speaker == SpeakerOf(track)
        found == CallsBySid(sid)
        attempt == Recorded(text, final)
        invoked == attempt /\ found /= {} /\ speaker = "CUSTOMER" /\ openai_key
        row == NewTranscript(next_transcript_id, sid, speaker, text, now)
        contexts == IF invoked
                    THEN {ContextMessages(r, text) : r \in RecentTranscripts(sid, row)}
                    ELSE {<<>>}
        event(raised, context) ==
            [op |-> "fragment", call_sid |-> sid, data |-> data,
             track |-> track, finalv |-> finalv,
             ext |-> IF invoked THEN ext ELSE NotInvoked,
             context |-> context,
             fault |-> attempt /\ fault,
             raised |-> raised, resp |-> WebhookResponse(raised)]
    IN  /\ IF attempt /\ found /= {} /\ ~RolledBack(fault)
           THEN \E call \in found :
                  LET merged == IF speaker = "CUSTOMER"
                                THEN ExtractInformation(call, ext) ELSE call
                      touched == {TouchLive(l, merged, now) : l \in LiveBySid(sid)}
                      commits == /\ Accepts(merged, CallLimits)
                                 /\ \A l \in touched : Accepts(l, LiveLimits)
                  IN  IF commits
                      THEN /\ next_transcript_id <= MaxTranscripts
                           /\ calls' = (calls \ {call}) \cup {merged}
                           /\ transcripts' = AddTranscript(transcripts, row)
                           /\ next_transcript_id' = next_transcript_id + 1
                           /\ live_calls' = (live_calls \ LiveBySid(sid)) \cup touched
                           /\ \E context \in contexts : ev' = event(FALSE, context)
                      ELSE /\ UNCHANGED <<calls, transcripts, next_transcript_id,
                                          live_calls>>
                           /\ \E context \in contexts : ev' = event(TRUE, context)
           ELSE /\ UNCHANGED <<calls, transcripts, next_transcript_id, live_calls>>
                /\ \E context \in contexts :
                     ev' = event(attempt /\ fault, context)
        /\ UNCHANGED <<next_call_id, now, openai_key, twilio_sid, inflight>>

\* only a call that is still active is ended
EndCallIfActive(c) ==
    IF c.status = Str("active") THEN [c EXCEPT !.status = Str("ended")] ELSE c

\* line 440
EndCall(c) == [c EXCEPT !.status = Str("ended")]

(***************************************************************************)
(* POST /voice/transcription, handled by several threads at once.  Each    *)
(* request has its own session and transaction.  It reads the call, adds   *)
(* the transcript and runs the merge on its own copy of the row (lines     *)
(* 415-421; the extraction request takes up to 10 seconds), and later      *)
(* flushes and commits (lines 423-432).                                    *)
(***************************************************************************)
Handlers == 1 .. MaxHandlers

\* lines 415-421 of a final, non-empty fragment for a call that has a row
BeginFragment(h, sid, data, track, finalv, ext) ==
    LET text == TextOf(data)
        speaker == SpeakerOf(track)
    IN  /\ \A r \in inflight : r.h /= h
        /\ Recorded(text, IsFinal(finalv))
        /\ next_transcript_id <= MaxTranscripts
        /\ \E call \in CallsBySid(sid) :
              inflight' = inflight \cup
                 {[op |-> "fragment", h |-> h, call_sid |-> sid,
                   row |-> NewTranscript(next_transcript_id, sid, speaker, text, now),
                   snapshot |-> call,
                   merged |-> IF speaker = "CUSTOMER"
                              THEN ExtractInformation(call, ext) ELSE call]}
        /\ next_transcript_id' = next_transcript_id + 1
        /\ ev' = [op |-> "begin_fragment", h |-> h, call_sid |-> sid]
        /\ UNCHANGED <<tables, next_call_id, now, openai_key, twilio_sid>>

\* the UPDATE is applied only where the committed column is still unset
CommitRowIfUnset(current, snapshot, merged) ==
    [f \in DOMAIN current |->
        IF merged[f] /= snapshot[f] /\ current[f] \in {None, Str("")}
        THEN merged[f] ELSE current[f]]

\* the UPDATE of the flush: it sets the columns this session assigned, on the
\* row as committed by then, without reading it again
CommitRow(current, snapshot, merged) ==
    [f \in DOMAIN current |->
        IF merged[f] /= snapshot[f] THEN merged[f] ELSE current[f]]

\* lines 423-434 of the request of handler h; when the row is gone by then
\* the UPDATE matches nothing, the flush raises and the request rolls back
CommitFragment(h) ==
    \E r \in inflight :
       LET event(before, raised) ==
              [op |-> "commit_fragment", h |-> h, call_sid |-> r.call_sid,
               snapshot |-> r.snapshot, merged |-> r.merged,
               before |-> before, raised |-> raised,
               resp |-> WebhookResponse(raised)]
       IN  /\ r.h = h /\ r.op = "fragment"
           /\ inflight' = inflight \ {r}
           /\ IF CallsById(r.snapshot.id) = {}
              THEN UNCHANGED tables /\ ev' = event(None, TRUE)
              ELSE \E current \in CallsById(r.snapshot.id) :
                 LET written == CommitRow(current, r.snapshot, r.merged)
                     touched == {TouchLive(l, r.merged, now) :
                                    l \in LiveBySid(r.call_sid)}
                     commits == /\ Accepts(written, CallLimits)
                                /\ \A l \in touched : Accepts(l, LiveLimits)
                 IN  /\ IF commits
                        THEN /\ calls' = (calls \ {current}) \cup {written}
                             /\ transcripts' = AddTranscript(transcripts, r.row)
                             /\ live_calls' =
                                   (live_calls \ LiveBySid(r.call_sid)) \cup touched
                        ELSE UNCHANGED tables
                     /\ ev' = event(current, ~commits)
           /\ UNCHANGED <<next_call_id, next_transcript_id, now, openai_key,
                          twilio_sid>>

\* event 'transcription-stopped'
HandleStopped(sid, fault) ==
    /\ IF fault
       THEN UNCHANGED <<calls, live_calls>>
       ELSE /\ calls' = {IF c.call_sid = sid THEN EndCall(c) ELSE c : c \in calls}
            /\ live_calls' = {IF l.call_sid = sid
                              THEN [l EXCEPT !.status = Str("completed")]
                              ELSE l : l \in live_calls}
    /\ ev' = [op |-> "stopped", call_sid |-> sid, raised |-> fault,
              resp |-> WebhookResponse(fault)]
    /\ UNCHANGED <<transcripts, next_call_id, next_transcript_id, now,
                   openai_key, twilio_sid, inflight>>

\* any other TranscriptionEvent: neither branch runs
HandleOtherEvent(sid) ==
    /\ ev' = [op |-> "other_event", call_sid |-> sid, resp |-> 200]
    /\ UNCHANGED <<tables, next_call_id, next_transcript_id, now,
                   openai_key, twilio_sid, inflight>>

(***************************************************************************)
(* GET /api/conversations/<call_sid>                                       *)
(***************************************************************************)
\* the rows of transcripts at the indices idx, in that order
RowsAt(idx) == [i \in DOMAIN idx |-> transcripts[idx[i]]]

\* Transcript.query.filter_by(call_sid=...).order_by(Transcript.timestamp):
\* the orders the database may return, which are those sorted by timestamp;
\* ORDER BY names no second key, so rows of equal timestamp come in any order
OrderedByTimestamp(sid) ==
    LET match == {i \in DOMAIN transcripts : transcripts[i].call_sid = sid}
        n == Cardinality(match)
    IN  {RowsAt(idx) : idx \in
            {f \in [1 .. n -> match] :
                /\ \A i, j \in 1 .. n : i /= j => f[i] /= f[j]
                /\ \A i, j \in 1 .. n :
                      i < j => transcripts[f[i]].timestamp <= transcripts[f[j]].timestamp}}

GetConversation(sid, fault) ==
    /\ \E rows \in (IF fault \/ CallsBySid(sid) = {} THEN {<<>>}
                    ELSE OrderedByTimestamp(sid)) :
          ev' = [op |-> "get_conversation", call_sid |-> sid,
                 transcripts |-> rows, resp |-> IF fault THEN 500 ELSE 200]
    /\ UNCHANGED <<tables, next_call_id, next_transcript_id, now,
                   openai_key, twilio_sid, inflight>>

(***************************************************************************)
(* POST /api/update-call-status, POST /api/update-team-notes               *)
(***************************************************************************)
\* line 589
ValidStatuses == {Str("active"), Str("ended"), Str("completed"), Str("callback")}

\* the test of line 590 left out
StatusResponseUnvalidated(call_id, new_status, fault) ==
    IF ~Truthy(call_id) \/ ~Truthy(new_status) THEN 400
    ELSE IF fault = "query" THEN 500
    ELSE IF CallsById(call_id.n) = {} THEN 404
    ELSE IF fault = "commit" THEN 500
    ELSE 200

\* the status code of update_call_status; fault: "none", "query", "commit"
StatusResponse(call_id, new_status, fault) ==
    IF ~Truthy(call_id) \/ ~Truthy(new_status) THEN 400
    ELSE IF new_status \notin ValidStatuses THEN 400
    ELSE IF fault = "query" THEN 500
    ELSE IF CallsById(call_id.n) = {} THEN 404
    ELSE IF fault = "commit" THEN 500
    ELSE 200

UpdateCallStatus(call_id, new_status, fault) ==
    LET resp == StatusResponse(call_id, new_status, fault)
    IN  /\ calls' = IF resp = 200
                    THEN {IF c.id = call_id.n THEN [c EXCEPT !.status = new_status]
                          ELSE c : c \in calls}
                    ELSE calls
        /\ ev' = [op |-> "update_status", call_id |-> call_id,
                  status |-> new_status, fault |-> fault, resp |-> resp]
        /\ UNCHANGED <<transcripts, live_calls, next_call_id, next_transcript_id,
                       now, openai_key, twilio_sid, inflight>>

\* the test of line 562 left out
NotesResponseUnchecked(call_id, fault) ==
    IF ~Truthy(call_id) THEN 400
    ELSE IF fault /= "none" THEN 500
    ELSE 200

\* the status code of update_team_notes
NotesResponse(call_id, fault) ==
    IF ~Truthy(call_id) THEN 400
    ELSE IF fault = "query" THEN 500
    ELSE IF CallsById(call_id.n) = {} THEN 404
    ELSE IF fault = "commit" THEN 500
    ELSE 200

\* notes: data.get('team_notes', '').strip(), a string
UpdateTeamNotes(call_id, notes, fault) ==
    LET resp == NotesResponse(call_id, fault)
    IN  /\ calls' = IF resp = 200
                    THEN {IF c.id = call_id.n THEN [c EXCEPT !.team_notes = notes]
                          ELSE c : c \in calls}
                    ELSE calls
        /\ ev' = [op |-> "update_notes", call_id |-> call_id, fault |-> fault,
                  resp |-> resp]
        /\ UNCHANGED <<transcripts, live_calls, next_call_id, next_transcript_id,
                       now, openai_key, twilio_sid, inflight>>

(***************************************************************************)
(* POST /api/download-audio/<int:call_id>                                  *)
(***************************************************************************)
\* os.path.join(audio_dir, f"{recording_sid}.mp3") below the working directory
AudioPath(rsid) ==
    Str("audio_files/" \o (IF rsid.t = "str" THEN rsid.s ELSE "None") \o ".mp3")

\* the status code of download_audio; result: what download_twilio_audio
\* returns, "ok" or "failed"; fault: "none", "query", "commit"
DownloadResponse(call_id, result, fault) ==
    IF fault = "query" THEN 500
    ELSE IF \A c \in CallsById(call_id.n) : ~Truthy(c.recording_url) THEN 404
    ELSE IF result /= "ok" THEN 500
    ELSE IF fault = "commit" THEN 500
    ELSE 200

\* call_id: the integer of the URL
DownloadAudio(call_id, result, fault) ==
    LET resp == DownloadResponse(call_id, result, fault)
    IN  /\ calls' = IF resp = 200
                    THEN {IF c.id = call_id.n
                          THEN [c EXCEPT !.local_audio_path = AudioPath(c.recording_sid),
                                         !.audio_status = Str("downloaded")]
                          ELSE c : c \in calls}
                    ELSE calls
        /\ ev' = [op |-> "download_audio", call_id |-> call_id, result |-> result,
                  fault |-> fault, resp |-> resp]
        /\ UNCHANGED <<transcripts, live_calls, next_call_id, next_transcript_id,
                       now, openai_key, twilio_sid, inflight>>

(***************************************************************************)
(* POST /voice/incoming, handled by several threads at once.  Each request *)
(* has its own session.  It reads the call (line 337), later inserts and   *)
(* commits it and reads the live row (lines 338-343), and later inserts    *)
(* and commits the live row (lines 344-347).  Both call_sid columns are    *)
(* unique (lines 58 and 164): an insert of a value that another session    *)
(* has committed raises, and the bare except of line 348 rolls back what   *)
(* the request has not committed.                                          *)
(***************************************************************************)
\* calls.call_sid without its unique constraint
NoUniqueCall(sid) == FALSE

\* the INSERT into calls violates the unique constraint of line 58
DuplicateCall(sid) == CallsBySid(sid) /= {}

\* the INSERT into live_calls violates the unique constraint of line 164
DuplicateLive(sid) == LiveBySid(sid) /= {}

\* line 337 of the request of handler h
BeginIncoming(h, sid, from) ==
    /\ \A r \in inflight : r.h /= h
    /\ inflight' = inflight \cup
          {[op |-> "incoming", h |-> h, call_sid |-> sid, from |-> from,
            pc |-> "call", call_found |-> CallsBySid(sid) /= {},
            live_found |-> FALSE]}
    /\ ev' = [op |-> "begin_incoming", h |-> h, call_sid |-> sid]
    /\ UNCHANGED <<tables, next_call_id, next_transcript_id, now, openai_key,
                   twilio_sid>>

\* lines 338-343 of the request of handler h.  The sequence behind calls.id
\* gives its value before the constraint is checked.
InsertCall(h) ==
    \E r \in inflight :
       LET inserts == ~r.call_found
           raised == inserts /\ DuplicateCall(r.call_sid)
           event == [op |-> "insert_call", h |-> h, call_sid |-> r.call_sid,
                     call_found |-> r.call_found, raised |-> raised]
       IN  /\ r.h = h /\ r.op = "incoming" /\ r.pc = "call"
           /\ calls' = IF inserts /\ ~raised
                       THEN calls \cup {NewCall(next_call_id, r.call_sid, r.from, now)}
                       ELSE calls
           /\ next_call_id' = IF inserts THEN next_call_id + 1 ELSE next_call_id
           /\ IF raised
              THEN /\ inflight' = inflight \ {r}
                   /\ ev' = event @@ [resp |-> WebhookResponse(TRUE)]
              ELSE /\ inflight' = (inflight \ {r}) \cup
                         {[r EXCEPT !.pc = "live",
                                    !.live_found = LiveBySid(r.call_sid) /= {}]}
                   /\ ev' = event
           /\ UNCHANGED <<transcripts, live_calls, next_transcript_id, now,
                          openai_key, twilio_sid>>

\* lines 344-349 of the request of handler h, and its answer
InsertLive(h) ==
    \E r \in inflight :
       LET inserts == ~r.live_found
           raised == inserts /\ DuplicateLive(r.call_sid)
       IN  /\ r.h = h /\ r.op = "incoming" /\ r.pc = "live"
           /\ live_calls' = IF inserts /\ ~raised
                            THEN live_calls \cup {NewLiveCall(r.call_sid, r.from, now)}
                            ELSE live_calls
           /\ inflight' = inflight \ {r}
           /\ ev' = [op |-> "insert_live", h |-> h, call_sid |-> r.call_sid,
                     live_found |-> r.live_found, raised |-> raised,
                     resp |-> WebhookResponse(raised)]
           /\ UNCHANGED <<calls, transcripts, next_call_id, next_transcript_id, now,
                          openai_key, twilio_sid>>

(***************************************************************************)
(* GET /api/live-calls                                                     *)
(***************************************************************************)
\* the clock counts days; timedelta(hours=1) of line 501 in hours
HoursPerDay == 24
StaleHours == 1

\* line 501: LiveCall.last_update < datetime.utcnow() - timedelta(hours=1)
Stale(l) == l.last_update * HoursPerDay < now * HoursPerDay - StaleHours

\* lines 507-509: the rows the response lists, as a set
Listed(rows) == {l \in rows : l.status /= Str("completed")}

\* get_live_calls: the stale rows are deleted and the deletion committed,
\* then the rows that are not completed are listed; fault: a statement of
\* the try block raises, nothing is committed and the answer is 500
GetLiveCalls(fault) ==
    LET kept == {l \in live_calls : ~Stale(l)}
    IN  /\ live_calls' = IF fault THEN live_calls ELSE kept
        /\ ev' = [op |-> "live_calls", fault |-> fault,
                  listed |-> IF fault THEN {} ELSE {l.call_sid : l \in Listed(kept)},
                  resp |-> IF fault THEN 500 ELSE 200]
        /\ UNCHANGED <<calls, transcripts, next_call_id, next_transcript_id, now,
                       openai_key, twilio_sid, inflight>>

(***************************************************************************)
(* Retention sweep                                                         *)
(***************************************************************************)
\* line 200
Cutoff == now - RetentionDays

\* "<=" for "<"
OldCallsInclusive == {c \in calls : c.start_time <= Cutoff}

\* Call.start_time < three_months_ago
OldCalls == {c \in calls : c.start_time < Cutoff}

\* the relationship without its cascade
SweptTranscriptByAge(t) == t.timestamp < Cutoff

\* the transcripts the session deletes: those older than the cutoff, and by
\* the relationship's cascade those of every deleted call
SweptTranscript(t) ==
    \/ t.timestamp < Cutoff
    \/ \E c \in OldCalls : c.call_sid = t.call_sid

\* cleanup_old_database_records, run by get_conversations at random and at
\* process start; one commit, rolled back as a whole when anything raises
CleanupOldDatabaseRecords(fault) ==
    /\ IF fault
       THEN UNCHANGED tables
       ELSE /\ calls' = calls \ OldCalls
            /\ transcripts' = SelectSeq(transcripts, LAMBDA t : ~SweptTranscript(t))
            /\ live_calls' = {l \in live_calls : ~(l.start_time < Cutoff)}
    /\ ev' = [op |-> "cleanup", raised |-> fault, cutoff |-> Cutoff]
    /\ UNCHANGED <<next_call_id, next_transcript_id, now, openai_key, twilio_sid, inflight>>

\* time passes between two requests
Tick ==
    /\ \E t \in Times : t > now /\ now' = t
    /\ ev' = [op |-> "tick"]
    /\ UNCHANGED <<tables, next_call_id, next_transcript_id, openai_key, twilio_sid, inflight>>

(***************************************************************************)
(* Inputs                                                                  *)
(***************************************************************************)
TranscriptionData ==
    {[ok |-> FALSE]} \cup {[ok |-> TRUE, transcript |-> r] : r \in RawTexts}
Tracks == {"inbound_track", "outbound_track", "unknown"}
FinalValues == {"true", "True", "false", "absent"}
RecordingSids == {None, Str(""), Str("RE1")}
Durations == {"0", "30", "abc"}
CallIds == {None, Num(0), Num(1), Num(2)}
StatusValues == ValidStatuses \cup {None, Str(""), Str("ticket_raised")}
NoteValues == {Str(""), Str("rang back")}
DownloadResults == {"ok", "failed"}

\* JSON objects the extraction service returns
ExtractedData ==
    { ("postcode" :> Str("LS1 4ED")),
      ("postcode" :> Str("Leeds LS1 4ED")),
      ("postcode" :> Str("SW1 1AA")) @@ ("customer_name" :> Str("")),
      ("customer_name" :> Str("Ann")) @@ ("postcode" :> None),
      ("team_notes" :> Str("spam")) @@ ("trade_customer" :> Bool(TRUE)),
      ("status" :> Str("hacked")) @@ (NoAttribute :> Str("x")) }
Extractions ==
    {[kind |-> k, data |-> NoData] : k \in {"timeout", "unreachable", "malformed"}} \cup
    {[kind |-> "non200", data |-> ("postcode" :> Str("LS1 4ED"))]} \cup
    {[kind |-> "ok", data |-> d] : d \in ExtractedData}

\* JSON objects that name the boolean columns
FlagData ==
    { ("trade_customer" :> Bool(TRUE)),
      ("callback_requested" :> Bool(TRUE)) @@ ("trade_customer" :> Bool(FALSE)),
      ("roadside_reach" :> Bool(FALSE)) @@ ("booking_confirmed" :> Bool(FALSE)),
      ("roadside_reach" :> None) @@ ("booking_confirmed" :> Bool(TRUE)) }
FlagExtractions == {[kind |-> "ok", data |-> d] : d \in FlagData}

Next ==
    \/ \E sid \in CallSids, from \in FromNumbers, fault \in {"none", "call", "live"} :
          HandleIncomingCall(sid, from, fault)
    \/ \E sid \in CallSids, rsid \in RecordingSids, d \in Durations, fault \in BOOLEAN :
          HandleRecording(sid, rsid, d, fault)
    \/ \E sid \in CallSids, data \in TranscriptionData, track \in Tracks,
          finalv \in FinalValues, ext \in Extractions \cup FlagExtractions,
          fault \in BOOLEAN :
          HandleFragment(sid, data, track, finalv, ext, fault)
    \/ \E sid \in CallSids, fault \in BOOLEAN : HandleStopped(sid, fault)
    \/ \E sid \in CallSids : HandleOtherEvent(sid)
    \/ \E sid \in CallSids, fault \in BOOLEAN : GetConversation(sid, fault)
    \/ \E id \in CallIds, st \in StatusValues, fault \in {"none", "query", "commit"} :
          UpdateCallStatus(id, st, fault)
    \/ \E id \in CallIds, n \in NoteValues, fault \in {"none", "query", "commit"} :
          UpdateTeamNotes(id, n, fault)
    \/ \E id \in CallIds \ {None}, result \in DownloadResults,
          fault \in {"none", "query", "commit"} :
          DownloadAudio(id, result, fault)
    \/ \E fault \in BOOLEAN : GetLiveCalls(fault)
    \/ \E fault \in BOOLEAN : CleanupOldDatabaseRecords(fault)
    \/ Tick
    \/ \E h \in Handlers, sid \in CallSids, data \in TranscriptionData,
          track \in Tracks, finalv \in FinalValues,
          ext \in Extractions \cup FlagExtractions :
          BeginFragment(h, sid, data, track, finalv, ext)
    \/ \E h \in Handlers : CommitFragment(h)
    \/ \E h \in Handlers, sid \in CallSids, from \in FromNumbers :
          BeginIncoming(h, sid, from)
    \/ \E h \in Handlers : InsertCall(h)
    \/ \E h \in Handlers : InsertLive(h)

\* the whole program
Spec == Init /\ [][Next]_vars

(***************************************************************************)
(* Focused specifications.  Each follows the requests one group of         *)
(* properties is about, with the same actions as Spec and smaller inputs.  *)
(***************************************************************************)
OneFrom == {Str("+441")}
OneFragment == {[ok |-> TRUE, transcript |-> <<"a">>]}

\* call-started events, repeated, for a call whose record changes meanwhile
NextCreate ==
    \/ \E sid \in Dialled, from \in FromNumbers, fault \in {"none", "call", "live"} :
          HandleIncomingCall(sid, from, fault)
    \/ \E sid \in CallSids : HandleStopped(sid, FALSE)
    \/ Tick

SpecCreate == InitWith({TRUE}, {TRUE}) /\ [][NextCreate]_vars

\* the four webhook handlers, with storage faults and orphan events
Timeout == [kind |-> "timeout", data |-> NoData]
WebhookExtractions ==
    {Timeout, [kind |-> "ok", data |-> ("postcode" :> Str("LS1 4ED"))]}

NextWebhooks ==
    \/ \E sid \in Dialled, from \in OneFrom, fault \in {"none", "call", "live"} :
          HandleIncomingCall(sid, from, fault)
    \/ \E sid \in CallSids, rsid \in {None, Str("RE1")}, d \in {"30", "abc"},
          fault \in BOOLEAN :
          HandleRecording(sid, rsid, d, fault)
    \/ \E sid \in CallSids, data \in OneFragment,
          track \in {"inbound_track", "outbound_track"},
          finalv \in {"true", "false"}, ext \in WebhookExtractions, fault \in BOOLEAN :
          HandleFragment(sid, data, track, finalv, ext, fault)
    \/ \E sid \in CallSids, fault \in BOOLEAN : HandleStopped(sid, fault)
    \/ \E sid \in CallSids : HandleOtherEvent(sid)

SpecWebhooks == InitWith({TRUE}, BOOLEAN) /\ [][NextWebhooks]_vars

\* every form of a transcription fragment, final or not, with and without
\* text, on each track
NextCapture ==
    \/ \E sid \in Dialled, from \in OneFrom : HandleIncomingCall(sid, from, "none")
    \/ \E sid \in Dialled, data \in TranscriptionData, track \in Tracks,
          finalv \in FinalValues, ext \in WebhookExtractions :
          HandleFragment(sid, data, track, finalv, ext, FALSE)

SpecCapture == InitWith(BOOLEAN, {TRUE}) /\ [][NextCapture]_vars

\* final fragments and the extraction merge, with every answer of the service
\* and with storage faults
NextMerge ==
    \/ \E sid \in Dialled, from \in OneFrom : HandleIncomingCall(sid, from, "none")
    \/ \E sid \in Dialled, data \in OneFragment,
          track \in {"inbound_track", "outbound_track"} :
          \E ext \in (IF SpeakerOf(track) = "CUSTOMER" THEN Extractions ELSE {Timeout}),
             fault \in BOOLEAN :
             HandleFragment(sid, data, track, "true", ext, fault)
    \/ \E n \in NoteValues : UpdateTeamNotes(Num(1), n, "none")

SpecMerge == InitWith(BOOLEAN, {TRUE}) /\ [][NextMerge]_vars

\* fragments over time, and the transcript read back
NextOrder ==
    \/ \E sid \in Dialled, from \in OneFrom : HandleIncomingCall(sid, from, "none")
    \/ \E sid \in CallSids, data \in OneFragment,
          track \in {"inbound_track", "outbound_track"} :
          HandleFragment(sid, data, track, "true", Timeout, FALSE)
    \/ \E sid \in CallSids, fault \in BOOLEAN : GetConversation(sid, fault)
    \/ Tick

SpecOrder == InitWith({FALSE}, {TRUE}) /\ [][NextOrder]_vars

\* the status and notes API on calls the webhooks created
ApiIds == {None, Num(1), Num(2)}
ApiStatuses == {None, Str("completed"), Str("callback"), Str("ticket_raised")}
NextApi ==
    \/ \E sid \in CallSids, from \in OneFrom : HandleIncomingCall(sid, from, "none")
    \/ \E sid \in CallSids : HandleStopped(sid, FALSE)
    \/ \E id \in ApiIds, st \in ApiStatuses, fault \in {"none", "query", "commit"} :
          UpdateCallStatus(id, st, fault)
    \/ \E id \in ApiIds : UpdateTeamNotes(id, Str("rang back"), "none")

SpecApi == InitWith({TRUE}, {TRUE}) /\ [][NextApi]_vars

\* calls and transcripts ageing past the retention window
NextRetention ==
    \/ \E sid \in CallSids, from \in OneFrom : HandleIncomingCall(sid, from, "none")
    \/ \E sid \in CallSids, data \in OneFragment :
          HandleFragment(sid, data, "outbound_track", "true", Timeout, FALSE)
    \/ \E fault \in BOOLEAN : CleanupOldDatabaseRecords(fault)
    \/ Tick

SpecRetention == InitWith({TRUE}, {TRUE}) /\ [][NextRetention]_vars

\* the webhooks of one call, with extractions that name the boolean columns
NextFlags ==
    \/ \E sid \in Dialled, from \in OneFrom : HandleIncomingCall(sid, from, "none")
    \/ \E sid \in Dialled, data \in OneFragment,
          track \in {"inbound_track", "outbound_track"}, ext \in FlagExtractions :
          HandleFragment(sid, data, track, "true", ext, FALSE)
    \/ \E sid \in Dialled : HandleRecording(sid, Str("RE1"), "30", FALSE)
    \/ \E sid \in Dialled : HandleStopped(sid, FALSE)

SpecFlags == InitWith({TRUE}, {TRUE}) /\ [][NextFlags]_vars

\* the three requests that name a call by its id, for ids with and without a
\* row
NextNotFound ==
    \/ \E sid \in Dialled, from \in OneFrom : HandleIncomingCall(sid, from, "none")
    \/ \E sid \in Dialled : HandleRecording(sid, Str("RE1"), "30", FALSE)
    \/ \E id \in CallIds, st \in ApiStatuses, fault \in {"none", "query", "commit"} :
          UpdateCallStatus(id, st, fault)
    \/ \E id \in CallIds, n \in NoteValues, fault \in {"none", "query", "commit"} :
          UpdateTeamNotes(id, n, fault)
    \/ \E id \in CallIds \ {None}, result \in DownloadResults,
          fault \in {"none", "query", "commit"} :
          DownloadAudio(id, result, fault)

SpecNotFound == InitWith({TRUE}, {TRUE}) /\ [][NextNotFound]_vars

\* final customer fragments of one call handled at the same time
TwoPostcodes ==
    {[kind |-> "ok", data |-> ("postcode" :> Str("LS1 4ED"))],
     [kind |-> "ok", data |-> ("postcode" :> Str("SW1 1AA"))]}
NextConcurrent ==
    \/ \E sid \in Dialled, from \in OneFrom : HandleIncomingCall(sid, from, "none")
    \/ \E h \in Handlers, sid \in Dialled, data \in OneFragment,
          track \in {"inbound_track", "outbound_track"}, ext \in TwoPostcodes :
          BeginFragment(h, sid, data, track, "true", ext)
    \/ \E h \in Handlers : CommitFragment(h)
    \/ \E sid \in Dialled : HandleStopped(sid, FALSE)

SpecConcurrent == InitWith({TRUE}, {TRUE}) /\ [][NextConcurrent]_vars

\* the recording of a call: recording-completed events, repeated, and
\* download requests that succeed or fail
NextAudio ==
    \/ \E sid \in CallSids, from \in OneFrom : HandleIncomingCall(sid, from, "none")
    \/ \E sid \in CallSids, rsid \in RecordingSids, d \in {"30", "abc"},
          fault \in BOOLEAN :
          HandleRecording(sid, rsid, d, fault)
    \/ \E id \in {Num(1), Num(2)}, result \in DownloadResults,
          fault \in {"none", "query", "commit"} :
          DownloadAudio(id, result, fault)

SpecAudio == InitWith({TRUE}, {TRUE}) /\ [][NextAudio]_vars

\* the lifecycle status under every request that can write a call, with
\* extractions that name the status column
StatusExtractions ==
    {[kind |-> "ok", data |-> ("status" :> Str("hacked")) @@ (NoAttribute :> Str("x"))],
     [kind |-> "ok", data |-> ("status" :> Str("")) @@ ("postcode" :> Str("LS1 4ED"))]}
NextStatus ==
    \/ \E sid \in Dialled, from \in OneFrom : HandleIncomingCall(sid, from, "none")
    \/ \E sid \in Dialled, data \in OneFragment,
          track \in {"inbound_track", "outbound_track"}, ext \in StatusExtractions :
          HandleFragment(sid, data, track, "true", ext, FALSE)
    \/ \E sid \in Dialled : HandleRecording(sid, Str("RE1"), "30", FALSE)
    \/ \E sid \in Dialled : HandleStopped(sid, FALSE)
    \/ \E st \in StatusValues, fault \in {"none", "commit"} :
          UpdateCallStatus(Num(1), st, fault)

SpecStatus == InitWith({TRUE}, {TRUE}) /\ [][NextStatus]_vars

\* the transcript of one call under the webhooks, the merge, the API updates
\* and the retention sweep
NextLog ==
    \/ \E sid \in Dialled, from \in OneFrom : HandleIncomingCall(sid, from, "none")
    \/ \E sid \in Dialled, data \in OneFragment,
          track \in {"inbound_track", "outbound_track"} :
          HandleFragment(sid, data, track, "true",
                         [kind |-> "ok", data |-> ("postcode" :> Str("LS1 4ED"))], FALSE)
    \/ \E sid \in Dialled : HandleRecording(sid, Str("RE1"), "30", FALSE)
    \/ \E sid \in Dialled : HandleStopped(sid, FALSE)
    \/ UpdateCallStatus(Num(1), Str("callback"), "none")
    \/ UpdateTeamNotes(Num(1), Str("rang back"), "none")
    \/ \E fault \in BOOLEAN : CleanupOldDatabaseRecords(fault)
    \/ Tick

SpecLog == InitWith({TRUE}, {TRUE}) /\ [][NextLog]_vars

\* fragments of both tracks for a call whose live row comes and goes: it is
\* deleted when stale and inserted again by a repeated call-started event
LongPostcode == [kind |-> "ok", data |-> ("postcode" :> Str("Leeds LS1 4ED"))]
NextAgent ==
    \/ \E sid \in Dialled, from \in OneFrom : HandleIncomingCall(sid, from, "none")
    \/ \E sid \in CallSids, data \in TranscriptionData,
          track \in Tracks, finalv \in {"true", "false"} :
          HandleFragment(sid, data, track, finalv, LongPostcode, FALSE)
    \/ GetLiveCalls(FALSE)
    \/ Tick

SpecAgent == InitWith({TRUE}, {TRUE}) /\ [][NextAgent]_vars

\* the live row of one call beside its record: fragments that fill the
\* record, the deletion of stale live rows, the retention sweep and
\* call-started events at any time between
ShortPostcode == [kind |-> "ok", data |-> ("postcode" :> Str("LS1 4ED"))]
NextProjection ==
    \/ \E sid \in Dialled, from \in OneFrom : HandleIncomingCall(sid, from, "none")
    \/ \E sid \in Dialled, data \in OneFragment,
          track \in {"inbound_track", "outbound_track"} :
          HandleFragment(sid, data, track, "true", ShortPostcode, FALSE)
    \/ \E sid \in Dialled : HandleStopped(sid, FALSE)
    \/ \E fault \in BOOLEAN : GetLiveCalls(fault)
    \/ CleanupOldDatabaseRecords(FALSE)
    \/ Tick

SpecProjection == InitWith({TRUE}, {TRUE}) /\ [][NextProjection]_vars

\* call-started events handled at the same time, for the same and for
\* different calls
NextRace ==
    \/ \E h \in Handlers, sid \in CallSids, from \in OneFrom :
          BeginIncoming(h, sid, from)
    \/ \E h \in Handlers : InsertCall(h)
    \/ \E h \in Handlers : InsertLive(h)
    \/ \E sid \in Dialled : HandleStopped(sid, FALSE)

SpecRace == InitWith({TRUE}, {TRUE}) /\ [][NextRace]_vars

\* the webhooks of one call before and after its transcription has stopped
NextReopen ==
    \/ \E sid \in Dialled, from \in OneFrom : HandleIncomingCall(sid, from, "none")
    \/ \E sid \in Dialled : HandleStopped(sid, FALSE)
    \/ \E sid \in Dialled, data \in OneFragment,
          track \in {"inbound_track", "outbound_track"},
          ext \in StatusExtractions \cup {LongPostcode} :
          HandleFragment(sid, data, track, "true", ext, FALSE)
    \/ \E sid \in Dialled, rsid \in {None, Str("RE1")} :
          HandleRecording(sid, rsid, "30", FALSE)

SpecReopen == InitWith({TRUE}, {TRUE}) /\ [][NextReopen]_vars

(***************************************************************************)
(* Properties                                                              *)
(***************************************************************************)
\* the columns of Call that hold a Python value the merge may meet
ValueColumns == DOMAIN NewCall(0, "", None, 0) \ {"id", "call_sid", "start_time"}
Unset(v) == v = None \/ v = Str("")
WebhookOps == {"incoming", "recording", "fragment", "stopped", "other_event"}
RowsOf(sid) == {c \in calls : c.call_sid = sid}
\* the fragment of the event carries final, non-empty text
FinalText(e) ==
    /\ e.finalv \in {"true", "True"}
    /\ e.data.ok
    /\ \E i \in DOMAIN e.data.transcript : e.data.transcript[i] /= " "

\* C1: there is at most one row of calls per call identifier, and a
\* call-started event for an identifier that has a row adds none, is answered
\* 200 and leaves every row of calls as it was.
C1_IdempotentCallCreation ==
    [][/\ \A c1, c2 \in calls' : c1.call_sid = c2.call_sid => c1 = c2
       /\ (ev'.op = "incoming" /\ RowsOf(ev'.call_sid) /= {})
             => (calls' = calls /\ ev'.resp = 200)]_vars

\* a second call-started event, against a row that has since ended, at a
\* later time and from another number
C1_Witness ==
    /\ ev.op = "incoming"
    /\ \E c \in RowsOf(ev.call_sid) :
          /\ c.from_number /= ev.from
          /\ c.status = Str("ended")
          /\ c.start_time < now
    /\ Cardinality(calls) = 1

\* C2: a column of a call that holds a value other than None and '' keeps it
\* through every transcription fragment, whatever the extraction returns.
C2_FirstConfirmedWins ==
    [][ev'.op = "fragment" =>
          \A c \in calls : \E d \in calls' :
             /\ d.id = c.id
             /\ \A f \in ValueColumns : ~Unset(c[f]) => d[f] = c[f]]_vars

\* the extraction returned postcode "SW1 1AA" for a call that holds "LS1 4ED"
C2_Witness ==
    /\ ev.op = "fragment"
    /\ ~ev.raised
    /\ ev.ext.kind = "ok"
    /\ "postcode" \in DOMAIN ev.ext.data
    /\ ev.ext.data["postcode"] = Str("SW1 1AA")
    /\ \E c \in RowsOf(ev.call_sid) : c.postcode = Str("LS1 4ED")

\* C3: when the extraction succeeds for a fragment, every column that was
\* None or '' and for which the result has a value other than None and ''
\* holds that value afterwards, and every column for which the result has no
\* value, None or '' is as it was.
C3_EmptyFieldFill ==
    [][(ev'.op = "fragment" /\ ev'.ext.kind = "ok" /\ ~ev'.fault) =>
          \A c \in RowsOf(ev'.call_sid) : \E d \in calls' :
             /\ d.id = c.id
             /\ \A f \in ValueColumns :
                   LET given == f \in DOMAIN ev'.ext.data /\ ~Unset(ev'.ext.data[f])
                   IN  /\ (given /\ Unset(c[f])) => d[f] = ev'.ext.data[f]
                       /\ ~given => d[f] = c[f]]_vars

\* C4: a final, non-empty customer fragment for a call that has a row appends
\* one transcript row for that call, whatever the extraction does; and when
\* the extraction times out, is unreachable, answers with another status than
\* 200 or with a malformed body, calls is unchanged.
C4_ExtractionFailureIsolation ==
    [][(/\ ev'.op = "fragment"
        /\ FinalText(ev')
        /\ ev'.track = "inbound_track"
        /\ RowsOf(ev'.call_sid) /= {}
        /\ ~ev'.fault) =>
          /\ Len(transcripts') = Len(transcripts) + 1
          /\ SubSeq(transcripts', 1, Len(transcripts)) = transcripts
          /\ transcripts'[Len(transcripts')].call_sid = ev'.call_sid
          /\ transcripts'[Len(transcripts')].speaker = "CUSTOMER"
          /\ ev'.ext.kind \in FailureKinds => calls' = calls]_vars

\* C5: a fragment whose Final is not true, or whose text is empty once
\* trimmed, leaves the three tables and both sequences as they were and calls
\* no extraction.
C5_FinalOnlyCapture ==
    [][(ev'.op = "fragment" /\ ~FinalText(ev')) =>
          /\ tables' = tables
          /\ next_transcript_id' = next_transcript_id
          /\ ev'.ext.kind = "not_invoked"]_vars

\* an interim customer fragment with text, for a call that has a row and a
\* live row, with the extraction configured
C5_Witness ==
    /\ ev.op = "fragment"
    /\ ev.finalv = "false"
    /\ ev.data.ok
    /\ ev.data.transcript = <<"a">>
    /\ ev.track = "inbound_track"
    /\ openai_key
    /\ RowsOf(ev.call_sid) /= {}
    /\ \E l \in live_calls : l.call_sid = ev.call_sid

\* C6: the transcript of a call is returned in non-decreasing order of
\* timestamp, and in the order of insertion.
C6_TranscriptOrdering ==
    (ev.op = "get_conversation" /\ ev.resp = 200) =>
        \A i, j \in DOMAIN ev.transcripts :
           i < j => /\ ev.transcripts[i].timestamp <= ev.transcripts[j].timestamp
                    /\ ev.transcripts[i].id < ev.transcripts[j].id

\* C7: a recording-completed event for an identifier without a row leaves the
\* three tables as they were and is answered 200; and the row a call-started
\* event creates has no recording column set.
C7_DroppedOrphanEvent ==
    [][/\ (ev'.op = "recording" /\ RowsOf(ev'.call_sid) = {})
             => (tables' = tables /\ ev'.resp = 200)
       /\ ev'.op = "incoming" =>
             \A c \in calls' \ calls :
                /\ c.recording_sid = None
                /\ c.recording_url = None
                /\ c.recording_duration = Num(0)
                /\ c.audio_status = Str("pending")]_vars

\* a recording-completed event that names a recording, under a configured
\* carrier account, for an identifier without a row while another call has one
C7_Witness ==
    /\ ev.op = "recording"
    /\ ev.rsid = Str("RE1")
    /\ ~ev.raised
    /\ twilio_sid
    /\ RowsOf(ev.call_sid) = {}
    /\ calls /= {}

\* C8: an update-status request whose status is outside active, ended,
\* completed, callback is answered with a 4xx status and changes no table.
C8_StatusValidation ==
    [][(ev'.op = "update_status" /\
        ev'.status \notin {Str("active"), Str("ended"), Str("completed"), Str("callback")})
          => (ev'.resp \in 400 .. 499 /\ tables' = tables)]_vars

\* the status ticket_raised was sent for a call that has a row
C8_Witness ==
    /\ ev.op = "update_status"
    /\ ev.status = Str("ticket_raised")
    /\ ev.call_id /= None
    /\ \E c \in calls : c.id = ev.call_id.n /\ c.status = Str("ended")

\* C9: a sweep that commits keeps every call whose start_time is at or after
\* the cutoff, deletes every call whose start_time is before it, and leaves no
\* transcript of a deleted call.
C9_RetentionBoundary ==
    [][(ev'.op = "cleanup" /\ ~ev'.raised) =>
          \A c \in calls :
             IF c.start_time < now - 90
             THEN /\ c \notin calls'
                  /\ \A i \in DOMAIN transcripts' :
                        transcripts'[i].call_sid /= c.call_sid
             ELSE c \in calls']_vars

\* a sweep kept a call that started exactly at the cutoff and deleted an older
\* one together with its transcript
C9_Witness ==
    /\ ev.op = "cleanup"
    /\ ~ev.raised
    /\ \E c \in calls : c.start_time = ev.cutoff
    /\ Cardinality(calls) < next_call_id - 1
    /\ Len(transcripts) < next_transcript_id - 1

\* C10: every webhook request is answered 200.
C10_WebhooksAlwaysAcknowledge ==
    ev.op \in WebhookOps => ev.resp = 200

\* storage raised while a fragment for an identifier without a row was handled
C10_Witness ==
    /\ ev.op = "fragment"
    /\ ev.raised
    /\ RowsOf(ev.call_sid) = {}
\* C11: a transcription fragment during which storage raises leaves the three
\* tables exactly as they were (no transcript row, no merged field, no
\* live-call update), and the next fragment for the same call, when storage
\* is healthy and the extraction fails or is not called, appends its row.
C11_RollbackAsUnit ==
    [][/\ (ev'.op = "fragment" /\ (ev'.fault \/ ev'.raised)) => tables' = tables
       /\ (/\ ev.op = "fragment" /\ ev.fault
           /\ ev'.op = "fragment" /\ ev'.call_sid = ev.call_sid
           /\ FinalText(ev') /\ RowsOf(ev'.call_sid) /= {}
           /\ ~ev'.fault /\ ev'.ext.kind /= "ok") =>
             /\ ~ev'.raised
             /\ Len(transcripts') = Len(transcripts) + 1
             /\ transcripts'[Len(transcripts')].call_sid = ev'.call_sid]_vars

\* storage raised while a final customer fragment was handled whose
\* extraction had returned a postcode for a call without one, the call having
\* a live row and an earlier transcript row
C11_Witness ==
    /\ ev.op = "fragment"
    /\ ev.fault
    /\ ev.ext.kind = "ok"
    /\ "postcode" \in DOMAIN ev.ext.data
    /\ ev.ext.data["postcode"] = Str("LS1 4ED")
    /\ \E c \in RowsOf(ev.call_sid) : c.postcode = None
    /\ \E l \in live_calls : l.call_sid = ev.call_sid /\ l.status = Str("in_progress")
    /\ Len(transcripts) = 1

\* C12: when the extraction succeeds and gives true for trade_customer or
\* callback_requested of a call that holds false for it, and the event
\* commits, the call holds true for it afterwards.
C12_BooleanFalseToTrue ==
    [][(ev'.op = "fragment" /\ ev'.ext.kind = "ok" /\ ~ev'.raised) =>
          \A c \in RowsOf(ev'.call_sid) : \A d \in calls' :
             d.id = c.id =>
               \A f \in {"trade_customer", "callback_requested"} :
                  (/\ f \in DOMAIN ev'.ext.data
                   /\ ev'.ext.data[f] = Bool(TRUE)
                   /\ c[f] = Bool(FALSE)) => d[f] = Bool(TRUE)]_vars

\* the boolean columns of Call
BooleanColumns ==
    {"trade_customer", "callback_requested", "booking_confirmed", "roadside_reach"}

\* C13: a boolean column of a call that holds true holds true after every
\* webhook event, whatever the extraction returns.
C13_FlagsNeverReset ==
    [][\A c \in calls : \A d \in calls' :
          d.id = c.id =>
            \A f \in BooleanColumns : c[f] = Bool(TRUE) => d[f] = Bool(TRUE)]_vars

\* the extraction returned false for a boolean column of a call that holds
\* true for it, and the event committed
C13_Witness ==
    /\ ev.op = "fragment"
    /\ ~ev.raised
    /\ ev.ext.kind = "ok"
    /\ \E f \in BooleanColumns :
          /\ f \in DOMAIN ev.ext.data
          /\ ev.ext.data[f] = Bool(FALSE)
          /\ \E c \in RowsOf(ev.call_sid) : c[f] = Bool(TRUE)

\* C14: a transcription-stopped event that commits sets the status of the
\* call's row to ended whatever it was, changes no other column and no other
\* row of calls and no transcript, and the same event handled again leaves the
\* three tables as the first left them.
C14_StoppedIdempotent ==
    [][(ev'.op = "stopped" /\ ~ev'.raised) =>
          /\ calls' = {IF c.call_sid = ev'.call_sid
                       THEN [c EXCEPT !.status = Str("ended")] ELSE c : c \in calls}
          /\ transcripts' = transcripts
          /\ (ev.op = "stopped" /\ ~ev.raised /\ ev.call_sid = ev'.call_sid)
                => tables' = tables]_vars

\* a transcription-stopped event for a call that has a row with team notes,
\* while the other call is in status callback
C14_Witness ==
    /\ ev.op = "stopped"
    /\ ~ev.raised
    /\ \E c \in RowsOf(ev.call_sid) :
          c.status = Str("ended") /\ c.team_notes = Str("rang back")
    /\ \E c \in calls : c.call_sid /= ev.call_sid /\ c.status = Str("callback")

\* C15: every row of transcripts names a call identifier that has a row in
\* calls, after every event and after every sweep.
C15_ForeignKeyDiscipline ==
    \A i \in DOMAIN transcripts : RowsOf(transcripts[i].call_sid) /= {}

\* a final fragment arrived for an identifier whose call the sweep has
\* deleted, while another call keeps its transcript
C15_Witness ==
    /\ ev.op = "fragment"
    /\ FinalText(ev)
    /\ RowsOf(ev.call_sid) = {}
    /\ Cardinality(calls) < next_call_id - 1
    /\ Len(transcripts) >= 1

\* the requests that name a call by its internal id
ByIdOps == {"update_status", "update_notes", "download_audio"}
\* the event names an id, and no row of calls has it
NamesMissingCall(e) ==
    /\ e.op \in ByIdOps
    /\ e.call_id /= None
    /\ \A c \in calls : c.id /= e.call_id.n

StaffAndCarrierColumns ==
    {"team_notes", "recording_url", "recording_sid", "recording_duration",
     "local_audio_path", "audio_status", "call_sid", "status"}

\* C17: a transcription fragment that commits leaves team notes, the
\* recording columns, the call identifier and the status of the call as they
\* were, whatever keys and values the extraction returns.
C17_UnrecognizedKeysIgnored ==
    [][(ev'.op = "fragment" /\ ~ev'.raised) =>
          \A c \in RowsOf(ev'.call_sid) : \A d \in calls' :
             d.id = c.id => \A f \in StaffAndCarrierColumns : d[f] = c[f]]_vars

\* C18: when a request commits, every column its merge assigned (read as
\* unset when the request began) holds the request's value afterwards, also
\* where another request has committed a value for it in between: the later
\* commit replaces the committed value.
C18_ConcurrentMergeOverwrites ==
    [][(ev'.op = "commit_fragment" /\ ~ev'.raised) =>
          \A d \in calls' :
             d.id = ev'.snapshot.id =>
               \A f \in ValueColumns :
                  ev'.merged[f] /= ev'.snapshot[f] => d[f] = ev'.merged[f]]_vars

\* two requests read the postcode as unset; one committed "LS1 4ED", and the
\* other's commit has replaced it by "SW1 1AA"
C18_Witness ==
    /\ ev.op = "commit_fragment"
    /\ ~ev.raised
    /\ ev.snapshot.postcode = None
    /\ ev.before.postcode = Str("LS1 4ED")
    /\ ev.merged.postcode = Str("SW1 1AA")
    /\ \E c \in RowsOf(ev.call_sid) : c.postcode = Str("SW1 1AA")

\* C19: after a recording-completed event for an identifier that has a row,
\* the row either is as it was, or differs from it in exactly the four
\* recording columns, which hold the event's recording id, the URL built from
\* it, its duration as an integer and the status available; the second is the
\* case when the event names a recording, the carrier account is configured,
\* the duration is a number and storage does not raise.
C19_RecordingFieldsTogether ==
    [][ev'.op = "recording" =>
          \A c \in RowsOf(ev'.call_sid) :
             LET set == [c EXCEPT
                    !.recording_sid = ev'.rsid,
                    !.recording_url =
                       Str("https://api.twilio.com/2010-04-01/Accounts/AC1/Recordings/"
                           \o ev'.rsid.s \o ".mp3"),
                    !.recording_duration = IF ev'.duration = "30" THEN Num(30) ELSE Num(0),
                    !.audio_status = Str("available")]
                 applies == /\ ev'.rsid \notin {None, Str("")}
                            /\ twilio_sid
                            /\ ev'.duration \in {"0", "30"}
                            /\ ~ev'.raised
             IN  IF applies THEN set \in calls' /\ (set /= c => c \notin calls')
                 ELSE c \in calls']_vars

\* a recording-completed event set the four columns of a call that had ended
C19_Witness ==
    /\ ev.op = "recording"
    /\ ~ev.raised
    /\ \E c \in RowsOf(ev.call_sid) :
          /\ c.status = Str("ended")
          /\ c.recording_sid = Str("RE1")
          /\ c.recording_duration = Num(30)
          /\ c.audio_status = Str("available")
          /\ c.recording_url /= None

\* C20: the context sent to the extraction service for a customer utterance
\* is the at most 5 last rows of the call's transcript as it was before the
\* event, oldest first and each with the role of its speaker, followed by the
\* utterance once, with the role user.
C20_ExtractionContext ==
    [][(ev'.op = "fragment" /\ ev'.ext.kind /= "not_invoked") =>
          LET prior == SelectSeq(transcripts, LAMBDA t : t.call_sid = ev'.call_sid)
              n == Len(prior)
              k == IF n < 5 THEN n ELSE 5
              text == transcripts'[Len(transcripts')].text
          IN  ev'.raised \/
              ev'.context =
                 [i \in 1 .. k + 1 |->
                    IF i <= k
                    THEN [role |-> IF prior[n - k + i].speaker = "CUSTOMER"
                                   THEN "user" ELSE "assistant",
                          content |-> prior[n - k + i].text]
                    ELSE [role |-> "user", content |-> text]]]_vars

(***************************************************************************)
(* C21: the download status of a call only moves forward along pending,    *)
(* available, downloaded: no step takes it from downloaded to available or  *)
(* pending, from available to pending, or from pending straight to         *)
(* downloaded.                                                             *)
(***************************************************************************)
C21_AudioStatusForward ==
    [][\A c \in calls, d \in calls' :
          c.id = d.id =>
             /\ c.audio_status = Str("downloaded") => d.audio_status = Str("downloaded")
             /\ c.audio_status = Str("available") => d.audio_status /= Str("pending")
             /\ c.audio_status = Str("pending") => d.audio_status /= Str("downloaded")]_vars

(***************************************************************************)
(* C22: a failure to delete one expired row is local to that row: after    *)
(* any run of the retention sweep, failed or not, at most one row older    *)
(* than the sweep's cutoff is left in the three tables together.           *)
(***************************************************************************)
C22_SweepPartialFailure ==
    [][ev'.op = "cleanup" =>
          Cardinality({c \in calls' : c.start_time < ev'.cutoff})
          + Cardinality({i \in DOMAIN transcripts' :
                             transcripts'[i].timestamp < ev'.cutoff})
          + Cardinality({l \in live_calls' : l.start_time < ev'.cutoff}) <= 1]_vars

(***************************************************************************)
(* C23: in every reachable state the status of every call is one of        *)
(* active, ended, completed, callback, whatever the webhooks, the status   *)
(* API and the extraction merge have done, also when the extracted object  *)
(* carries a status key.                                                   *)
(***************************************************************************)
C23_StatusInClosedSet ==
    \A c \in calls :
       c.status \in {Str("active"), Str("ended"), Str("completed"), Str("callback")}

\* a customer fragment was committed whose extraction named a status, on a
\* call an operator had set to callback
C23_Witness ==
    /\ ev.op = "fragment"
    /\ ~ev.raised
    /\ ev.ext.kind = "ok"
    /\ "status" \in DOMAIN ev.ext.data
    /\ ev.ext.data["status"] = Str("hacked")
    /\ \E c \in calls : c.call_sid = ev.call_sid /\ c.status = Str("callback")
    /\ Len(transcripts) > 0

(***************************************************************************)
(* C24: the transcript log is append-only.  A step other than the          *)
(* retention sweep keeps every stored entry as it is, in its place, and    *)
(* can only add entries behind them; the sweep changes no entry and        *)
(* removes only entries older than its cutoff or entries of a call older   *)
(* than its cutoff.                                                        *)
(***************************************************************************)
C24_TranscriptAppendOnly ==
    [][IF ev'.op = "cleanup"
       THEN /\ \A j \in DOMAIN transcripts' :
                  \E i \in DOMAIN transcripts : transcripts[i] = transcripts'[j]
            /\ \A i \in DOMAIN transcripts :
                  \/ \E j \in DOMAIN transcripts' : transcripts'[j] = transcripts[i]
                  \/ transcripts[i].timestamp < ev'.cutoff
                  \/ \E c \in calls : /\ c.call_sid = transcripts[i].call_sid
                                      /\ c.start_time < ev'.cutoff
       ELSE /\ Len(transcripts') >= Len(transcripts)
            /\ SubSeq(transcripts', 1, Len(transcripts)) = transcripts]_vars

\* a second fragment of the same speaker was committed behind a stored one,
\* after the merge, the status API and the notes API had written the call
C24_Witness ==
    /\ ev.op = "fragment"
    /\ ~ev.raised
    /\ Len(transcripts) = 2
    /\ transcripts[1].speaker = transcripts[2].speaker
    /\ \E c \in calls : /\ c.postcode = Str("LS1 4ED")
                        /\ c.team_notes = Str("rang back")
                        /\ c.status = Str("callback")

(***************************************************************************)
(* C25: a final fragment with text from a track other than the customer's, *)
(* for a call that has a row and with healthy storage, appends exactly one *)
(* transcript, spoken by the agent, and leaves the table of calls as it    *)
(* was: the extraction merge is not run for it.                            *)
(***************************************************************************)
C25_MergeOnlyForCustomer ==
    [][(/\ ev'.op = "fragment"
        /\ FinalText(ev')
        /\ ev'.track /= "inbound_track"
        /\ ~ev'.fault
        /\ RowsOf(ev'.call_sid) /= {})
       => /\ calls' = calls
          /\ ev'.ext.kind = "not_invoked"
          /\ Len(transcripts') = Len(transcripts) + 1
          /\ SubSeq(transcripts', 1, Len(transcripts)) = transcripts
          /\ transcripts'[Len(transcripts')].call_sid = ev'.call_sid
          /\ transcripts'[Len(transcripts')].speaker = "AI_AGENT"]_vars

(***************************************************************************)
(* C26: the live row is derived from the call.  After every step, for      *)
(* every live row whose call has a row, the live row's customer name and   *)
(* postcode are each 'Unknown' or the call's current value; and a step     *)
(* changes a call's customer name or postcode only to a value the          *)
(* extraction of that step returned, never to a value of the live row.     *)
(***************************************************************************)
C26_LiveProjectionDerived ==
    [][/\ \A l \in live_calls', c \in calls' :
             l.call_sid = c.call_sid =>
                /\ l.customer_name \in {Str("Unknown"), c.customer_name}
                /\ l.postcode \in {Str("Unknown"), c.postcode}
       /\ \A c \in calls, d \in calls' :
             c.id = d.id =>
                \A f \in {"customer_name", "postcode"} :
                   d[f] /= c[f] =>
                      /\ ev'.op = "fragment"
                      /\ f \in DOMAIN ev'.ext.data
                      /\ d[f] = ev'.ext.data[f]]_vars

(***************************************************************************)
(* C27: when call-started events for one identifier are handled at the     *)
(* same time and each has read that no call exists, one insert commits     *)
(* and every later one fails and is rolled back: an insert step of a       *)
(* handler that had read no call adds exactly one row when the identifier  *)
(* still has none, and otherwise raises, leaves the tables as they were    *)
(* and is answered with 200; every request's last step is answered with    *)
(* 200; and in every state an identifier has at most one call.             *)
(***************************************************************************)
C27_ConcurrentCallStarted ==
    [][/\ \A sid \in {"CA1", "CA2"} : Cardinality(RowsOf(sid)) <= 1
       /\ \A sid \in {"CA1", "CA2"} :
             Cardinality({c \in calls' : c.call_sid = sid}) <= 1
       /\ (ev'.op = "insert_call" /\ ~ev'.call_found) =>
             IF RowsOf(ev'.call_sid) = {}
             THEN /\ ~ev'.raised
                  /\ \E c \in calls' : /\ c.call_sid = ev'.call_sid
                                       /\ c \notin calls
                                       /\ calls' = calls \cup {c}
             ELSE /\ ev'.raised
                  /\ ev'.resp = 200
                  /\ calls' = calls /\ live_calls' = live_calls
                  /\ transcripts' = transcripts
       /\ ev'.op = "insert_live" => ev'.resp = 200]_vars

\* the second of two handlers that had both read that CA1 has no call has
\* failed on its insert, after the first had finished; CA1 has one call
C27_Witness ==
    /\ ev.op = "insert_call"
    /\ ~ev.call_found
    /\ ev.raised
    /\ ev.resp = 200
    /\ inflight = {}
    /\ Cardinality({c \in calls : c.call_sid = ev.call_sid}) = 1
    /\ Cardinality({l \in live_calls : l.call_sid = ev.call_sid}) = 1

(***************************************************************************)
(* C28: no webhook event reopens a call.  A call-started event, a fragment *)
(* or a recording-completed event for a call whose status is ended leaves  *)
(* the call stored with status ended, and such a fragment, when it is      *)
(* final, has text and meets healthy storage, is appended to the           *)
(* transcript.                                                             *)
(***************************************************************************)
C28_NoWebhookReopens ==
    [][(/\ ev'.op \in {"incoming", "fragment", "recording"}
        /\ \E c \in RowsOf(ev'.call_sid) : c.status = Str("ended"))
       => /\ \E c \in calls' : c.call_sid = ev'.call_sid
          /\ \A c \in calls' : c.call_sid = ev'.call_sid => c.status = Str("ended")
          /\ (ev'.op = "fragment" /\ FinalText(ev') /\ ~ev'.fault) =>
                /\ Len(transcripts') = Len(transcripts) + 1
                /\ SubSeq(transcripts', 1, Len(transcripts)) = transcripts
                /\ transcripts'[Len(transcripts')].call_sid = ev'.call_sid]_vars

====
